---- MODULE Spec2Model ----
(***************************************************************************)
(* Model of Peer (src/unnamed/part_000): the wire-protocol state machine   *)
(* layered on a NoiseSocket.  The Peer's fields are the variables; every   *)
(* public method and every socket listener is one action.  Everything the  *)
(* Peer emits, every call it makes on the socket, on the init message      *)
(* factory and on its PingPongState, and every thrown error is appended,   *)
(* in program order, to `trace`.                                           *)
(*                                                                         *)
(* The module also models TxBuilder (src/packages/bitcoin/lib/             *)
(* TxBuilder.ts): the builder's fields are `builder`, each of addInput,    *)
(* addOutput, setScriptSig, hashAll, sign and serialize is one action, and *)
(* `call` holds the last call with its result.  SpecTxBuilder explores the *)
(* builder; the Peer specifications leave it untouched.                    *)
(***************************************************************************)
EXTENDS Integers, Sequences, FiniteSets, TLC

\* Number of API calls and transport signals explored in one behaviour.
MaxSteps == 6

VARIABLES
    state,           \* Peer.state: "pending" | "awaiting_peer_init" | "ready"
    socket,          \* Peer.socket and the status of the transport behind it
    messageCounter,  \* Peer.messageCounter
    remoteInit,      \* Peer.remoteInit, <<>> while undefined
    localInit,       \* Peer.localInit, <<>> while undefined
    pingPongState,   \* Peer.pingPongState
    detached,        \* transports replaced by a later connect, still listened to
    trace,           \* everything observable, in program order
    steps,           \* API calls and transport signals so far
    builder,         \* a TxBuilder (src/packages/bitcoin/lib/TxBuilder.ts)
    call             \* the last call made on the builder, with what it returned

peerVars == <<state, socket, detached, messageCounter, remoteInit, localInit,
              pingPongState, trace, steps>>
vars == <<peerVars, builder, call>>

PeerState == {"pending", "awaiting_peer_init", "ready"}

----------------------------------------------------------------------------
(* Wire codec.  A frame is <<hi, lo, payload>>: a big-endian u16 type and   *)
(* a payload; a decoded message is <<type, payload>>.                       *)

KnownTypes == {16, 18, 19, 256}

\* Frames the remote may send: init, ping asking for 2 pong bytes, a pong of
\* 1 byte and one of 2 bytes, channel_announcement, a ping cut short, and a
\* frame of unknown type.
Frames == {<<0, 16, 1>>, <<0, 18, 2>>, <<0, 19, 1>>, <<0, 19, 2>>,
           <<1, 0, 7>>, <<0, 18>>, <<3, 231, 1>>}

\* Messages the local application sends.
OutMessages == {<<256, 7>>}

MessageType(raw) == raw[1] * 256 + raw[2]

\* MessageFactory.deserialize: throws on a frame too short for its type,
\* returns undefined (<<>>) for a type it does not know.
Deserialize(raw) ==
    IF MessageType(raw) \notin KnownTypes
    THEN [threw |-> FALSE, m |-> <<>>]
    ELSE IF Len(raw) < 3
         THEN [threw |-> TRUE, m |-> <<>>]
         ELSE [threw |-> FALSE, m |-> <<MessageType(raw), raw[3]>>]

\* IWireMessage.serialize
Serialize(m) == <<m[1] \div 256, m[1] % 256, m[2]>>

IsInitMessage(m) == m # <<>> /\ m[1] = 16
IsPingMessage(m) == m # <<>> /\ m[1] = 18
IsPongMessage(m) == m # <<>> /\ m[1] = 19

\* The ping the liveness monitor sends: it asks for a pong of 1 byte.
PingMessage == <<18, 1>>

\* The record the initMessageFactory passed to the constructor returns.
InitMessageFactory == <<16, 3>>

\* Errors, as one-element tuples: a codec failure, a TypeError (a property
\* read on undefined), the two assertion errors of Peer, a transport error.
DecodeError    == <<1>>
TypeError      == <<2>>
ExpectingInit  == <<3>>
PeerNotReady   == <<4>>
TransportError == <<5>>
LivenessError  == <<6>>

----------------------------------------------------------------------------
(* Trace entries.  st is Peer.state at the moment the entry is produced.    *)

Entry(k, n, a, st) == [kind |-> k, name |-> n, arg |-> a, st |-> st]
Signal(n, a)       == Entry("signal", n, a, state)
Api(n, a)          == Entry("api", n, a, state)
Factory(st)        == Entry("factory", "initMessageFactory", <<>>, st)
Emit(n, a, st)     == Entry("emit", n, a, st)
SocketCall(n, a, st) == Entry("socket", n, a, st)
PingPong(n, a, st) == Entry("pingpong", n, a, st)
Throw(n, a)        == Entry("throw", n, a, state)

----------------------------------------------------------------------------
(* TxBuilder (src/packages/bitcoin/lib/TxBuilder.ts).  Buffers and scripts  *)
(* are sequences of small integers; a TxIn is [outpoint, scriptSig,         *)
(* sequence], a TxOut is [value, scriptPubKey].  Indices are 0-based as in  *)
(* the code.                                                                *)

\* Most inputs and outputs a builder is given, and calls made on it.
MaxInputs  == 2
MaxOutputs == 1
MaxCalls   == 4

OutPoints       == {1, 2}
Scripts         == {<<81>>}
EmptyScript     == <<>>
Values          == {5}
PrevOuts        == {[value |-> 9, scriptPubKey |-> <<118, 1>>]}
NoPrevOut       == [value |-> 0, scriptPubKey |-> <<>>]
RedeemScripts   == {<<87>>}
NoRedeemScript  == <<>>
PrivateKeys     == {7}
DefaultSequence == 255
HashModulus     == 65536

TxIn(outpoint, scriptSig, sequence) ==
    [outpoint |-> outpoint, scriptSig |-> scriptSig, sequence |-> sequence]
TxOut(value, scriptPubKey) == [value |-> value, scriptPubKey |-> scriptPubKey]

\* The sorters a builder is constructed with: the default () => 0, and one
\* ordering inputs by outpoint and outputs by value.
Sorters == {"none", "ascending"}
SortKey(sorter, e, field) == IF sorter = "none" THEN 0 ELSE e[field]

\* TxBuilder.constructor
NewTxBuilder(inputSorter, outputSorter) ==
    [inputSorter |-> inputSorter, outputSorter |-> outputSorter,
     version |-> 1, locktime |-> 0, inputs |-> <<>>, outputs |-> <<>>]

\* Array.prototype.sort, which is stable: the positions of seq in sorted
\* order.
SortPerm(sorter, seq, field) ==
    LET n == Len(seq)
        key(i) == SortKey(sorter, seq[i], field)
    IN  CHOOSE p \in [1..n -> 1..n] :
            \A i, j \in 1..n :
                i < j => \/ key(p[i]) < key(p[j])
                         \/ key(p[i]) = key(p[j]) /\ p[i] < p[j]

\* TxBuilder.inputs and TxBuilder.outputs: a sorted copy of the array that
\* holds the same TxIn and TxOut objects.
Inputs(b) ==
    LET p == SortPerm(b.inputSorter, b.inputs, "outpoint")
    IN  [i \in 1..Len(b.inputs) |-> b.inputs[p[i]]]
Outputs(b) ==
    LET p == SortPerm(b.outputSorter, b.outputs, "value")
    IN  [i \in 1..Len(b.outputs) |-> b.outputs[p[i]]]

RECURSIVE Concat(_)
Concat(ss) == IF Len(ss) = 0 THEN <<>> ELSE Head(ss) \o Concat(Tail(ss))

\* TxIn.serialize, TxOut.serialize: the script is written behind its length.
TxInSerialize(vin) ==
    <<vin.outpoint, Len(vin.scriptSig)>> \o vin.scriptSig \o <<vin.sequence>>
TxOutSerialize(vout) ==
    <<vout.value, Len(vout.scriptPubKey)>> \o vout.scriptPubKey

\* new Script(redeemScript): one command that pushes the buffer.
ScriptOfBuffer(buf) == <<Len(buf)>> \o buf

\* hash256: a digest of fixed width.
RECURSIVE Digest(_, _)
Digest(bytes, h) ==
    IF Len(bytes) = 0 THEN h
    ELSE Digest(Tail(bytes), (h * 31 + Head(bytes)) % HashModulus)
Hash256(bytes) == <<Digest(bytes, 1)>>

\* sigToDER(sign(hash, privateKey)): deterministic in the hash and the key.
SignDER(hash, privateKey) == <<48, (hash[1] * 3 + privateKey) % HashModulus>>

\* hashAll committing to the scriptSig already set on the signatory input.
HashAllWritten_KeepsScriptSig(b, input, prevout, redeemScript) ==
    LET inputs  == Inputs(b)
        outputs == Outputs(b)
        vin(i) ==
            IF i - 1 # input THEN <<>>
            ELSE TxInSerialize(TxIn(inputs[i].outpoint,
                                    inputs[i].scriptSig \o
                                        (IF redeemScript # NoRedeemScript
                                         THEN ScriptOfBuffer(redeemScript)
                                         ELSE prevout.scriptPubKey),
                                    inputs[i].sequence))
    IN  <<b.version, Len(inputs)>>
            \o Concat([i \in 1..Len(inputs) |-> vin(i)])
            \o <<Len(outputs)>>
            \o Concat([i \in 1..Len(outputs) |-> TxOutSerialize(outputs[i])])
            \o <<b.locktime, 1>>

\* TxBuilder.hashAll, up to the hash: what it has written to its writer.
\* The loop leaves an input that is not the signatory by continue, before
\* the write.
HashAllWritten(b, input, prevout, redeemScript) ==
    LET inputs  == Inputs(b)
        outputs == Outputs(b)
        vin(i) ==
            IF i - 1 # input THEN <<>>
            ELSE TxInSerialize(TxIn(inputs[i].outpoint,
                                    IF redeemScript # NoRedeemScript
                                    THEN ScriptOfBuffer(redeemScript)
                                    ELSE prevout.scriptPubKey,
                                    inputs[i].sequence))
    IN  <<b.version, Len(inputs)>>
            \o Concat([i \in 1..Len(inputs) |-> vin(i)])
            \o <<Len(outputs)>>
            \o Concat([i \in 1..Len(outputs) |-> TxOutSerialize(outputs[i])])
            \o <<b.locktime, 1>>

\* TxBuilder.hashAll
HashAll(b, input, prevout, redeemScript) ==
    Hash256(HashAllWritten(b, input, prevout, redeemScript))

\* TxBuilder.sign: the DER signature and the sighash type byte.
TxSign(b, privateKey, input, prevout, redeemScript) ==
    SignDER(HashAll(b, input, prevout, redeemScript), privateKey) \o <<1>>

\* TxBuilder.serialize: toTx().serialize(), every input with its scriptSig.
TxSerialize(b) ==
    LET inputs  == Inputs(b)
        outputs == Outputs(b)
    IN  <<b.version, Len(inputs)>>
            \o Concat([i \in 1..Len(inputs) |-> TxInSerialize(inputs[i])])
            \o <<Len(outputs)>>
            \o Concat([i \in 1..Len(outputs) |-> TxOutSerialize(outputs[i])])
            \o <<b.locktime>>

\* Script.p2pkUnlock(sig): the script that pushes the signature.
UnlockScript(sig) == <<Len(sig)>> \o sig

\* TxBuilder.setScriptSig: this.inputs[0].scriptSig = scriptSig changes the
\* TxIn object that is first in sorted order, in place.
SetScriptSig(b, index, scriptSig) ==
    LET p == SortPerm(b.inputSorter, b.inputs, "outpoint")
    IN  [b EXCEPT !.inputs[p[1]].scriptSig = scriptSig]

\* A call on the builder: its name, its arguments, whether it threw, what
\* it returned, and (hashAll, sign) what was written to be hashed.
Call(op, index, script, prevout, redeem, key, threw, ret, written) ==
    [op |-> op, n |-> call.n + 1, index |-> index, script |-> script,
     prevout |-> prevout, redeem |-> redeem, key |-> key, threw |-> threw,
     ret |-> ret, written |-> written]
NoCall ==
    [op |-> "none", n |-> 0, index |-> 0, script |-> <<>>,
     prevout |-> NoPrevOut, redeem |-> <<>>, key |-> 0, threw |-> FALSE,
     ret |-> <<>>, written |-> <<>>]

----------------------------------------------------------------------------
\* The Peer after construction.
InitPeer ==
    /\ state = "pending"
    /\ socket = [bound |-> FALSE, ready |-> FALSE, ended |-> FALSE,
                 remoteEnded |-> FALSE, errored |-> FALSE, closed |-> FALSE]
    /\ detached = <<>>
    /\ messageCounter = 0
    /\ remoteInit = <<>>
    /\ localInit = <<>>
    /\ pingPongState = [running |-> FALSE, sentPing |-> <<>>,
                        active |-> FALSE, waited |-> 0]
    /\ trace = <<>>
    /\ steps = 0

Init ==
    /\ InitPeer
    /\ builder = NewTxBuilder("none", "none")
    /\ call = NoCall

----------------------------------------------------------------------------
(* The transport's side of the contract: which signal a NoiseSocket may     *)
(* raise next.  ready is raised once, when the handshake completes, and not *)
(* on a socket that was ended or has failed; frames are delivered only      *)
(* after ready and until the remote ends, the socket fails or it closes (a  *)
(* local end() closes the writing side only); after an error only close     *)
(* follows; close is raised once and nothing follows it.                    *)

\* Transport 0 is the one Peer.socket refers to; transport k > 0 is the k-th
\* of those a later connect has replaced.
Transports   == 0..Len(detached)
Transport(k) == IF k = 0 THEN socket ELSE detached[k]

MayReady(k) == /\ Transport(k).bound /\ ~Transport(k).ready /\ ~Transport(k).ended
               /\ ~Transport(k).errored /\ ~Transport(k).closed
MayData(k)  == /\ Transport(k).bound /\ Transport(k).ready
               /\ ~Transport(k).remoteEnded
               /\ ~Transport(k).errored /\ ~Transport(k).closed
MayEnd(k)   == /\ Transport(k).bound /\ ~Transport(k).remoteEnded
               /\ ~Transport(k).errored /\ ~Transport(k).closed
MayError(k) == Transport(k).bound /\ ~Transport(k).errored /\ ~Transport(k).closed
MayClose(k) == Transport(k).bound /\ ~Transport(k).closed

\* The caller's side of the contract: connect is called on a Peer that has
\* no transport yet.
MayConnect == ~socket.bound

\* Transport k has raised the signal recorded in field f of its status; ended
\* tells whether the listener has called end() on Peer.socket.
Signalled(k, f, ended) ==
    /\ socket' = [(IF k = 0 THEN [socket EXCEPT ![f] = TRUE] ELSE socket)
                     EXCEPT !.ended = @ \/ ended]
    /\ detached' = IF k = 0 THEN detached ELSE [detached EXCEPT ![k][f] = TRUE]

----------------------------------------------------------------------------
(* PingPongState: the liveness monitor.  Time is counted in firings of its  *)
(* recurring timer: active tells whether a message was observed since the   *)
(* last firing, waited counts the firings since the outstanding ping.       *)

\* Firings of the timer after which an unanswered ping is a liveness fault.
TimeoutTicks == 2

\* PingPongState.start
PingPongStart ==
    [running |-> TRUE, sentPing |-> <<>>, active |-> FALSE, waited |-> 0]

\* PingPongState.onDisconnecting
PingPongOnDisconnecting == [pingPongState EXCEPT !.running = FALSE]

\* PingPongState.onMessage(m): every message counts as activity; a ping is
\* answered at once with a pong of the requested length, through
\* Peer.sendMessage, which asserts state = ready; a pong of the length the
\* outstanding ping asked for clears that ping, any other pong is ignored.
PingPongOnMessage(m) ==
    LET seen == <<PingPong("onMessage", m, state)>>
        pong == <<19, m[2]>>
        seenPP == [pingPongState EXCEPT !.active = TRUE]
        matches == /\ pingPongState.sentPing # <<>>
                   /\ m[2] = pingPongState.sentPing[2]
    IN  IF IsPingMessage(m)
        THEN IF state = "ready"
             THEN [threw |-> FALSE, err |-> <<>>, pp |-> seenPP,
                   out |-> seen \o <<Emit("sending", Serialize(pong), state),
                                     SocketCall("write", Serialize(pong), state)>>]
             ELSE [threw |-> TRUE, err |-> PeerNotReady, pp |-> seenPP, out |-> seen]
        ELSE IF IsPongMessage(m) /\ matches
        THEN [threw |-> FALSE, err |-> <<>>, out |-> seen,
              pp |-> [seenPP EXCEPT !.sentPing = <<>>, !.waited = 0]]
        ELSE [threw |-> FALSE, err |-> <<>>, out |-> seen, pp |-> seenPP]

\* A timer callback that waits for the pong without a limit.
PingPongOnTick_NeverTimesOut ==
    LET pp == pingPongState
    IN  IF pp.sentPing # <<>>
        THEN [threw |-> FALSE, ended |-> FALSE,
              pp  |-> [pp EXCEPT !.waited = pp.waited + 1, !.active = FALSE],
              out |-> <<>>]
        ELSE IF pp.active
        THEN [threw |-> FALSE, ended |-> FALSE,
              pp |-> [pp EXCEPT !.active = FALSE], out |-> <<>>]
        ELSE IF state = "ready"
        THEN [threw |-> FALSE, ended |-> FALSE,
              pp  |-> [pp EXCEPT !.sentPing = PingMessage, !.waited = 0],
              out |-> <<PingPong("sendPing", PingMessage, state),
                        Emit("sending", Serialize(PingMessage), state),
                        SocketCall("write", Serialize(PingMessage), state)>>]
        ELSE [threw |-> TRUE, ended |-> FALSE, pp |-> pp,
              out |-> <<PingPong("sendPing", PingMessage, state),
                        Throw("sendMessage", PeerNotReady)>>]

\* A timer callback that looks at idleness only, not at the outstanding ping.
PingPongOnTick_PingWhileOutstanding ==
    LET pp == pingPongState
    IN  IF pp.active
        THEN [threw |-> FALSE, ended |-> FALSE,
              pp |-> [pp EXCEPT !.active = FALSE], out |-> <<>>]
        ELSE IF state = "ready"
        THEN [threw |-> FALSE, ended |-> FALSE,
              pp  |-> [pp EXCEPT !.sentPing = PingMessage, !.waited = 0],
              out |-> <<PingPong("sendPing", PingMessage, state),
                        Emit("sending", Serialize(PingMessage), state),
                        SocketCall("write", Serialize(PingMessage), state)>>]
        ELSE [threw |-> TRUE, ended |-> FALSE, pp |-> pp,
              out |-> <<PingPong("sendPing", PingMessage, state),
                        Throw("sendMessage", PeerNotReady)>>]

\* The timer callback of PingPongState.  With a ping outstanding it waits, and
\* after TimeoutTicks firings declares the peer unresponsive: the Peer is
\* disconnected, the error is surfaced and the monitor stops.  With no ping
\* outstanding and no message since the last firing it sends a ping through
\* Peer.sendMessage and records it as outstanding.
PingPongOnTick ==
    LET pp == pingPongState
    IN  IF pp.sentPing # <<>>
        THEN IF pp.waited + 1 >= TimeoutTicks
             THEN [threw |-> FALSE, ended |-> TRUE,
                   pp  |-> [pp EXCEPT !.running = FALSE, !.active = FALSE],
                   out |-> <<PingPong("timeout", pp.sentPing, state),
                             SocketCall("end", <<>>, state),
                             Emit("error", LivenessError, state)>>]
             ELSE [threw |-> FALSE, ended |-> FALSE,
                   pp  |-> [pp EXCEPT !.waited = pp.waited + 1, !.active = FALSE],
                   out |-> <<>>]
        ELSE IF pp.active
        THEN [threw |-> FALSE, ended |-> FALSE,
              pp |-> [pp EXCEPT !.active = FALSE], out |-> <<>>]
        ELSE IF state = "ready"
        THEN [threw |-> FALSE, ended |-> FALSE,
              pp  |-> [pp EXCEPT !.sentPing = PingMessage, !.waited = 0],
              out |-> <<PingPong("sendPing", PingMessage, state),
                        Emit("sending", Serialize(PingMessage), state),
                        SocketCall("write", Serialize(PingMessage), state)>>]
        ELSE [threw |-> TRUE, ended |-> FALSE, pp |-> pp,
              out |-> <<PingPong("sendPing", PingMessage, state),
                        Throw("sendMessage", PeerNotReady)>>]

----------------------------------------------------------------------------
(* Peer's private steps.  Each returns what it did: whether it threw, the   *)
(* trace entries it produced and the fields as it leaves them.              *)

Outcome(threw, err, out, st, mc, ri, pp) ==
    [threw |-> threw, err |-> err, out |-> out, state |-> st,
     messageCounter |-> mc, remoteInit |-> ri, pingPongState |-> pp]

\* _processPeerInitMessage without the transition to ready.
ProcessPeerInitMessage_NoTransition(raw) ==
    LET d == Deserialize(raw)
        failed(err) == Outcome(TRUE, err, <<>>, state, messageCounter,
                               remoteInit, pingPongState)
    IN  IF d.threw THEN failed(DecodeError)
        ELSE IF d.m = <<>> THEN failed(TypeError)
        ELSE IF ~IsInitMessage(d.m) THEN failed(ExpectingInit)
        ELSE Outcome(FALSE, <<>>,
                     <<PingPong("start", <<>>, state), Emit("ready", <<>>, state)>>,
                     state, messageCounter, d.m, PingPongStart)

\* _processPeerInitMessage starting the monitor before it has checked the frame.
ProcessPeerInitMessage_StartFirst(raw) ==
    LET d == Deserialize(raw)
        started == <<PingPong("start", <<>>, state)>>
        failed(err) == Outcome(TRUE, err, started, state, messageCounter,
                               remoteInit, PingPongStart)
    IN  IF d.threw THEN failed(DecodeError)
        ELSE IF d.m = <<>> THEN failed(TypeError)
        ELSE IF ~IsInitMessage(d.m) THEN failed(ExpectingInit)
        ELSE Outcome(FALSE, <<>>, started \o <<Emit("ready", <<>>, "ready")>>,
                     "ready", messageCounter, d.m, PingPongStart)

\* _processPeerInitMessage storing the message before it has checked its kind.
ProcessPeerInitMessage_StoreFirst(raw) ==
    LET d == Deserialize(raw)
        failed(err) == Outcome(TRUE, err, <<>>, state, messageCounter,
                               remoteInit, pingPongState)
    IN  IF d.threw THEN failed(DecodeError)
        ELSE IF d.m = <<>> THEN failed(TypeError)
        ELSE IF ~IsInitMessage(d.m)
        THEN Outcome(TRUE, ExpectingInit, <<>>, state, messageCounter, d.m,
                     pingPongState)
        ELSE Outcome(FALSE, <<>>,
                     <<PingPong("start", <<>>, state), Emit("ready", <<>>, "ready")>>,
                     "ready", messageCounter, d.m, PingPongStart)

\* Peer._processPeerInitMessage
ProcessPeerInitMessage(raw) ==
    LET d == Deserialize(raw)
        failed(err) == Outcome(TRUE, err, <<>>, state, messageCounter,
                               remoteInit, pingPongState)
    IN  IF d.threw THEN failed(DecodeError)
        ELSE IF d.m = <<>> THEN failed(TypeError)
        ELSE IF ~IsInitMessage(d.m) THEN failed(ExpectingInit)
        ELSE Outcome(FALSE, <<>>,
                     <<PingPong("start", <<>>, state), Emit("ready", <<>>, "ready")>>,
                     "ready", messageCounter, d.m, PingPongStart)

\* _processMessage deserializing before it emits rawmessage.
ProcessMessage_DecodeFirst(raw) ==
    LET d   == Deserialize(raw)
        mc  == messageCounter + 1
        rawEv == <<Emit("rawmessage", raw, state)>>
        pp  == PingPongOnMessage(d.m)
    IN  IF d.threw
        THEN Outcome(TRUE, DecodeError, <<>>, state, mc, remoteInit, pingPongState)
        ELSE IF d.m = <<>>
        THEN Outcome(FALSE, <<>>, rawEv, state, mc, remoteInit, pingPongState)
        ELSE IF pp.threw
        THEN Outcome(TRUE, pp.err, rawEv \o pp.out, state, mc, remoteInit, pp.pp)
        ELSE Outcome(FALSE, <<>>, rawEv \o pp.out \o <<Emit("message", d.m, state)>>,
                     state, mc, remoteInit, pp.pp)

\* _processMessage counting a frame only once it has been deserialized.
ProcessMessage_CountDecoded(raw) ==
    LET d   == Deserialize(raw)
        mc  == messageCounter + 1
        rawEv == <<Emit("rawmessage", raw, state)>>
        pp  == PingPongOnMessage(d.m)
    IN  IF d.threw
        THEN Outcome(TRUE, DecodeError, rawEv, state, messageCounter, remoteInit,
                     pingPongState)
        ELSE IF d.m = <<>>
        THEN Outcome(FALSE, <<>>, rawEv, state, mc, remoteInit, pingPongState)
        ELSE IF pp.threw
        THEN Outcome(TRUE, pp.err, rawEv \o pp.out, state, mc, remoteInit, pp.pp)
        ELSE Outcome(FALSE, <<>>, rawEv \o pp.out \o <<Emit("message", d.m, state)>>,
                     state, mc, remoteInit, pp.pp)

\* _processMessage emitting message ahead of rawmessage.
ProcessMessage_MessageFirst(raw) ==
    LET d   == Deserialize(raw)
        mc  == messageCounter + 1
        rawEv == <<Emit("rawmessage", raw, state)>>
        pp  == PingPongOnMessage(d.m)
    IN  IF d.threw
        THEN Outcome(TRUE, DecodeError, rawEv, state, mc, remoteInit, pingPongState)
        ELSE IF d.m = <<>>
        THEN Outcome(FALSE, <<>>, rawEv, state, mc, remoteInit, pingPongState)
        ELSE IF pp.threw
        THEN Outcome(TRUE, pp.err, rawEv \o pp.out, state, mc, remoteInit, pp.pp)
        ELSE Outcome(FALSE, <<>>, pp.out \o <<Emit("message", d.m, state)>> \o rawEv,
                     state, mc, remoteInit, pp.pp)

\* _processMessage dispatching the message before the monitor has seen it.
ProcessMessage_ObserveAfter(raw) ==
    LET d   == Deserialize(raw)
        mc  == messageCounter + 1
        rawEv == <<Emit("rawmessage", raw, state)>>
        pp  == PingPongOnMessage(d.m)
    IN  IF d.threw
        THEN Outcome(TRUE, DecodeError, rawEv, state, mc, remoteInit, pingPongState)
        ELSE IF d.m = <<>>
        THEN Outcome(FALSE, <<>>, rawEv, state, mc, remoteInit, pingPongState)
        ELSE IF pp.threw
        THEN Outcome(TRUE, pp.err, rawEv \o pp.out, state, mc, remoteInit, pp.pp)
        ELSE Outcome(FALSE, <<>>, rawEv \o <<Emit("message", d.m, state)>> \o pp.out,
                     state, mc, remoteInit, pp.pp)

\* _processMessage handing an undefined message on without the if (m) guard.
ProcessMessage_NoGuard(raw) ==
    LET d   == Deserialize(raw)
        mc  == messageCounter + 1
        rawEv == <<Emit("rawmessage", raw, state)>>
        pp  == PingPongOnMessage(d.m)
    IN  IF d.threw
        THEN Outcome(TRUE, DecodeError, rawEv, state, mc, remoteInit, pingPongState)
        ELSE IF d.m = <<>>
        THEN Outcome(TRUE, TypeError,
                     rawEv \o <<PingPong("onMessage", <<>>, state)>>,
                     state, mc, remoteInit, pingPongState)
        ELSE IF pp.threw
        THEN Outcome(TRUE, pp.err, rawEv \o pp.out, state, mc, remoteInit, pp.pp)
        ELSE Outcome(FALSE, <<>>, rawEv \o pp.out \o <<Emit("message", d.m, state)>>,
                     state, mc, remoteInit, pp.pp)

\* Peer._processMessage
ProcessMessage(raw) ==
    LET d   == Deserialize(raw)
        mc  == messageCounter + 1
        rawEv == <<Emit("rawmessage", raw, state)>>
        pp  == PingPongOnMessage(d.m)
    IN  IF d.threw
        THEN Outcome(TRUE, DecodeError, rawEv, state, mc, remoteInit, pingPongState)
        ELSE IF d.m = <<>>
        THEN Outcome(FALSE, <<>>, rawEv, state, mc, remoteInit, pingPongState)
        ELSE IF pp.threw
        THEN Outcome(TRUE, pp.err, rawEv \o pp.out, state, mc, remoteInit, pp.pp)
        ELSE Outcome(FALSE, <<>>, rawEv \o pp.out \o <<Emit("message", d.m, state)>>,
                     state, mc, remoteInit, pp.pp)

\* _onSocketData whose catch block emits the error before it ends the socket.
SocketData_ErrorFirst(raw) ==
    LET r == IF state = "awaiting_peer_init"
             THEN ProcessPeerInitMessage(raw)
             ELSE ProcessMessage(raw)
    IN  IF r.threw
        THEN [r EXCEPT !.out = r.out \o <<Emit("error", r.err, r.state),
                                          SocketCall("end", <<>>, r.state)>>]
        ELSE r

\* Peer._onSocketData: the dispatch on state and the catch block.
SocketData(raw) ==
    LET r == IF state = "awaiting_peer_init"
             THEN ProcessPeerInitMessage(raw)
             ELSE ProcessMessage(raw)
    IN  IF r.threw
        THEN [r EXCEPT !.out = r.out \o <<SocketCall("end", <<>>, r.state),
                                          Emit("error", r.err, r.state)>>]
        ELSE r

\* What a throwing listener throws, and the events of the inbound dispatch
\* whose listener may throw.
ListenerError == <<7>>
ThrowingListeners == {"rawmessage", "message", "ready"}

\* The listener of event ev throws when it is called: EventEmitter.emit calls
\* the listeners synchronously, so the throw leaves emit and the method that
\* called it at that statement.  emit("ready") is the last statement of
\* _processPeerInitMessage.
ProcessPeerInitMessageThrowing(raw, ev) ==
    LET r == ProcessPeerInitMessage(raw)
    IN  IF ~r.threw /\ ev = "ready"
        THEN [r EXCEPT !.threw = TRUE, !.err = ListenerError,
                       !.out = r.out \o <<Throw(ev, ListenerError)>>]
        ELSE r

\* emit("rawmessage") precedes the deserialization in _processMessage and
\* emit("message") is its last statement.
ProcessMessageThrowing(raw, ev) ==
    LET r == ProcessMessage(raw)
    IN  IF ev = "rawmessage"
        THEN Outcome(TRUE, ListenerError,
                     <<Emit("rawmessage", raw, state), Throw(ev, ListenerError)>>,
                     state, messageCounter + 1, remoteInit, pingPongState)
        ELSE IF ev = "message" /\ ~r.threw /\ Deserialize(raw).m # <<>>
        THEN [r EXCEPT !.threw = TRUE, !.err = ListenerError,
                       !.out = r.out \o <<Throw(ev, ListenerError)>>]
        ELSE r

\* _onSocketData undoing the field changes of the failed call in its catch.
SocketDataThrowing_RollsBack(raw, ev) ==
    LET r == IF state = "awaiting_peer_init"
             THEN ProcessPeerInitMessageThrowing(raw, ev)
             ELSE ProcessMessageThrowing(raw, ev)
    IN  IF r.threw
        THEN Outcome(TRUE, r.err,
                     r.out \o <<SocketCall("end", <<>>, state),
                                Emit("error", r.err, state)>>,
                     state, messageCounter, remoteInit, pingPongState)
        ELSE r

\* Peer._onSocketData with a listener that throws.
SocketDataThrowing(raw, ev) ==
    LET r == IF state = "awaiting_peer_init"
             THEN ProcessPeerInitMessageThrowing(raw, ev)
             ELSE ProcessMessageThrowing(raw, ev)
    IN  IF r.threw
        THEN [r EXCEPT !.out = r.out \o <<SocketCall("end", <<>>, r.state),
                                          Emit("error", r.err, r.state)>>]
        ELSE r

\* _sendInitMessage writing the init without announcing it.
SendInitMessage_NoSending(st) ==
    <<Factory(st),
      SocketCall("write", Serialize(InitMessageFactory), st)>>

\* Peer._sendInitMessage
SendInitMessage(st) ==
    <<Factory(st),
      Emit("sending", Serialize(InitMessageFactory), st),
      SocketCall("write", Serialize(InitMessageFactory), st)>>

----------------------------------------------------------------------------
(* Public methods.                                                          *)

\* Peer.connect
Connect ==
    /\ steps < MaxSteps
    /\ socket' = [bound |-> TRUE, ready |-> FALSE, ended |-> FALSE,
                  remoteEnded |-> FALSE, errored |-> FALSE, closed |-> FALSE]
    /\ detached' = IF socket.bound THEN Append(detached, socket) ELSE detached
    /\ trace' = trace \o <<Api("connect", <<>>), SocketCall("connect", <<>>, state)>>
    /\ steps' = steps + 1
    /\ UNCHANGED <<builder, call, state, messageCounter, remoteInit, localInit,
                   pingPongState>>

\* Peer.sendMessage
SendMessage(m) ==
    /\ steps < MaxSteps
    /\ trace' = trace \o <<Api("sendMessage", m)>> \o
                  (IF state = "ready"
                   THEN <<Emit("sending", Serialize(m), state),
                          SocketCall("write", Serialize(m), state)>>
                   ELSE <<Throw("sendMessage", PeerNotReady)>>)
    /\ steps' = steps + 1
    /\ UNCHANGED <<builder, call, state, socket, detached, messageCounter,
                   remoteInit, localInit,
                   pingPongState>>

\* disconnect announcing the close itself.
Disconnect_EmitsClose ==
    /\ steps < MaxSteps
    /\ trace' = trace \o <<Api("disconnect", <<>>)>> \o
                  (IF socket.bound
                   THEN <<SocketCall("end", <<>>, state), Emit("close", <<>>, state)>>
                   ELSE <<Throw("disconnect", TypeError)>>)
    /\ socket' = IF socket.bound THEN [socket EXCEPT !.ended = TRUE] ELSE socket
    /\ steps' = steps + 1
    /\ UNCHANGED <<builder, call, state, detached, messageCounter, remoteInit,
                   localInit,
                   pingPongState>>

\* Peer.disconnect
Disconnect ==
    /\ steps < MaxSteps
    /\ trace' = trace \o <<Api("disconnect", <<>>)>> \o
                  (IF socket.bound
                   THEN <<SocketCall("end", <<>>, state)>>
                   ELSE <<Throw("disconnect", TypeError)>>)
    /\ socket' = IF socket.bound THEN [socket EXCEPT !.ended = TRUE] ELSE socket
    /\ steps' = steps + 1
    /\ UNCHANGED <<builder, call, state, detached, messageCounter, remoteInit,
                   localInit,
                   pingPongState>>

----------------------------------------------------------------------------
(* Socket listeners, registered by connect.                                 *)

\* _onSocketReady sending the init message before it emits open.
OnSocketReady_OpenLast(k) ==
    /\ steps < MaxSteps
    /\ Transport(k).bound
    /\ state' = "awaiting_peer_init"
    /\ localInit' = InitMessageFactory
    /\ trace' = trace \o <<Signal("ready", <<>>)>>
                      \o SendInitMessage("awaiting_peer_init")
                      \o <<Emit("open", <<>>, "awaiting_peer_init")>>
    /\ Signalled(k, "ready", FALSE)
    /\ steps' = steps + 1
    /\ UNCHANGED <<builder, call, messageCounter, remoteInit, pingPongState>>

\* Peer._onSocketReady
OnSocketReady(k) ==
    /\ steps < MaxSteps
    /\ Transport(k).bound
    /\ state' = "awaiting_peer_init"
    /\ localInit' = InitMessageFactory
    /\ trace' = trace \o <<Signal("ready", <<>>),
                           Emit("open", <<>>, "awaiting_peer_init")>>
                      \o SendInitMessage("awaiting_peer_init")
    /\ Signalled(k, "ready", FALSE)
    /\ steps' = steps + 1
    /\ UNCHANGED <<builder, call, messageCounter, remoteInit, pingPongState>>

\* Peer._onSocketEnd
OnSocketEnd(k) ==
    /\ steps < MaxSteps
    /\ Transport(k).bound
    /\ trace' = trace \o <<Signal("end", <<>>), Emit("end", <<>>, state)>>
    /\ Signalled(k, "remoteEnded", FALSE)
    /\ steps' = steps + 1
    /\ UNCHANGED <<builder, call, state, messageCounter, remoteInit, localInit,
                   pingPongState>>

\* Peer._onSocketClose
OnSocketClose(k) ==
    /\ steps < MaxSteps
    /\ Transport(k).bound
    /\ pingPongState' = PingPongOnDisconnecting
    /\ trace' = trace \o <<Signal("close", <<>>),
                           PingPong("onDisconnecting", <<>>, state),
                           Emit("close", <<>>, state)>>
    /\ Signalled(k, "closed", FALSE)
    /\ steps' = steps + 1
    /\ UNCHANGED <<builder, call, state, messageCounter, remoteInit, localInit>>

\* _onSocketError tearing the connection down itself.
OnSocketError_TearsDown(k) ==
    /\ steps < MaxSteps
    /\ Transport(k).bound
    /\ pingPongState' = PingPongOnDisconnecting
    /\ trace' = trace \o <<Signal("error", TransportError),
                           Emit("error", TransportError, state),
                           PingPong("onDisconnecting", <<>>, state),
                           Emit("close", <<>>, state)>>
    /\ Signalled(k, "errored", FALSE)
    /\ steps' = steps + 1
    /\ UNCHANGED <<builder, call, state, messageCounter, remoteInit, localInit>>

\* Peer._onSocketError
OnSocketError(k) ==
    /\ steps < MaxSteps
    /\ Transport(k).bound
    /\ trace' = trace \o <<Signal("error", TransportError),
                           Emit("error", TransportError, state)>>
    /\ Signalled(k, "errored", FALSE)
    /\ steps' = steps + 1
    /\ UNCHANGED <<builder, call, state, messageCounter, remoteInit, localInit,
                   pingPongState>>

\* The recurring timer of PingPongState fires.
OnPingTimer ==
    /\ steps < MaxSteps
    /\ pingPongState.running
    /\ LET r == PingPongOnTick
       IN  /\ trace' = trace \o <<Signal("tick", <<>>)>> \o r.out
           /\ pingPongState' = r.pp
           /\ socket' = IF r.ended THEN [socket EXCEPT !.ended = TRUE] ELSE socket
    /\ steps' = steps + 1
    /\ UNCHANGED <<builder, call, state, detached, messageCounter, remoteInit,
                   localInit>>

\* Peer._onSocketData
OnSocketData(k, raw) ==
    /\ steps < MaxSteps
    /\ Transport(k).bound
    /\ LET r == SocketData(raw)
       IN  /\ trace' = trace \o <<Signal("data", raw)>> \o r.out
           /\ state' = r.state
           /\ messageCounter' = r.messageCounter
           /\ remoteInit' = r.remoteInit
           /\ pingPongState' = r.pingPongState
           /\ socket' = IF r.threw THEN [socket EXCEPT !.ended = TRUE] ELSE socket
    /\ steps' = steps + 1
    /\ UNCHANGED <<builder, call, localInit, detached>>

\* Peer._onSocketData for a frame during whose dispatch the listener of ev
\* throws.
OnSocketDataListenerThrows(k, raw, ev) ==
    /\ steps < MaxSteps
    /\ Transport(k).bound
    /\ LET r == SocketDataThrowing(raw, ev)
       IN  /\ r.err = ListenerError
           /\ trace' = trace \o <<Signal("data", raw)>> \o r.out
           /\ state' = r.state
           /\ messageCounter' = r.messageCounter
           /\ remoteInit' = r.remoteInit
           /\ pingPongState' = r.pingPongState
           /\ socket' = [socket EXCEPT !.ended = TRUE]
    /\ steps' = steps + 1
    /\ UNCHANGED <<builder, call, localInit, detached>>

----------------------------------------------------------------------------
(* Calls on the TxBuilder.                                                  *)

\* TxBuilder.addInput
AddInput(outpoint, scriptSig) ==
    /\ call.n < MaxCalls
    /\ Len(builder.inputs) < MaxInputs
    /\ builder' = [builder EXCEPT !.inputs =
                       Append(@, TxIn(outpoint, scriptSig, DefaultSequence))]
    /\ call' = Call("addInput", 0, scriptSig, NoPrevOut, <<>>, 0, FALSE, <<>>, <<>>)
    /\ UNCHANGED peerVars

\* TxBuilder.addOutput
AddOutput(value, scriptPubKey) ==
    /\ call.n < MaxCalls
    /\ Len(builder.outputs) < MaxOutputs
    /\ builder' = [builder EXCEPT !.outputs = Append(@, TxOut(value, scriptPubKey))]
    /\ call' = Call("addOutput", 0, scriptPubKey, NoPrevOut, <<>>, 0, FALSE, <<>>, <<>>)
    /\ UNCHANGED peerVars

\* TxBuilder.setScriptSig; on a builder without inputs this.inputs[0] is
\* undefined and the assignment throws a TypeError.
SetScriptSigCall(index, scriptSig) ==
    /\ call.n < MaxCalls
    /\ IF Len(builder.inputs) = 0
       THEN /\ builder' = builder
            /\ call' = Call("setScriptSig", index, scriptSig, NoPrevOut, <<>>, 0,
                            TRUE, <<>>, <<>>)
       ELSE /\ builder' = SetScriptSig(builder, index, scriptSig)
            /\ call' = Call("setScriptSig", index, scriptSig, NoPrevOut, <<>>, 0,
                            FALSE, <<>>, <<>>)
    /\ UNCHANGED peerVars

\* TxBuilder.hashAll
HashAllCall(input, prevout, redeemScript) ==
    /\ call.n < MaxCalls
    /\ call' = Call("hashAll", input, <<>>, prevout, redeemScript, 0, FALSE,
                    HashAll(builder, input, prevout, redeemScript),
                    HashAllWritten(builder, input, prevout, redeemScript))
    /\ UNCHANGED <<builder, peerVars>>

\* TxBuilder.sign
SignCall(privateKey, input, prevout, redeemScript) ==
    /\ call.n < MaxCalls
    /\ call' = Call("sign", input, <<>>, prevout, redeemScript, privateKey, FALSE,
                    TxSign(builder, privateKey, input, prevout, redeemScript),
                    HashAllWritten(builder, input, prevout, redeemScript))
    /\ UNCHANGED <<builder, peerVars>>

\* TxBuilder.serialize
SerializeCall ==
    /\ call.n < MaxCalls
    /\ call' = Call("serialize", 0, <<>>, NoPrevOut, <<>>, 0, FALSE,
                    TxSerialize(builder), <<>>)
    /\ UNCHANGED <<builder, peerVars>>

\* The scripts a caller sets: a given script, or the unlocking script made
\* of the signature that sign has just returned.
ScriptSigs == Scripts \cup (IF call.op = "sign" THEN {UnlockScript(call.ret)} ELSE {})

\* A TxBuilder constructed with either kind of sorter, under any sequence
\* of calls.
InitTxBuilder ==
    /\ InitPeer
    /\ \E s \in Sorters : builder = NewTxBuilder(s, s)
    /\ call = NoCall

NextTxBuilder ==
    \/ \E o \in OutPoints, s \in Scripts \cup {EmptyScript} : AddInput(o, s)
    \/ \E v \in Values, s \in Scripts : AddOutput(v, s)
    \/ \E i \in 0..(MaxInputs - 1), s \in ScriptSigs : SetScriptSigCall(i, s)
    \/ \E i \in 0..(MaxInputs - 1), p \in PrevOuts,
          r \in RedeemScripts \cup {NoRedeemScript} : HashAllCall(i, p, r)
    \/ \E k \in PrivateKeys, i \in 0..(MaxInputs - 1), p \in PrevOuts,
          r \in RedeemScripts \cup {NoRedeemScript} : SignCall(k, i, p, r)
    \/ SerializeCall

SpecTxBuilder == InitTxBuilder /\ [][NextTxBuilder]_vars

----------------------------------------------------------------------------
\* One Peer, one connect, a transport that keeps its contract.
Next ==
    \/ MayConnect /\ Connect
    \/ \E m \in OutMessages : SendMessage(m)
    \/ Disconnect
    \/ MayReady(0) /\ OnSocketReady(0)
    \/ MayEnd(0) /\ OnSocketEnd(0)
    \/ MayClose(0) /\ OnSocketClose(0)
    \/ MayError(0) /\ OnSocketError(0)
    \/ MayData(0) /\ \E raw \in Frames : OnSocketData(0, raw)
    \/ OnPingTimer

Spec == Init /\ [][Next]_vars

\* The same Peer under every interleaving of the transport's signals.
NextAnySignals ==
    \/ MayConnect /\ Connect
    \/ \E m \in OutMessages : SendMessage(m)
    \/ Disconnect
    \/ OnSocketReady(0)
    \/ OnSocketEnd(0)
    \/ OnSocketClose(0)
    \/ OnSocketError(0)
    \/ \E raw \in Frames : OnSocketData(0, raw)
    \/ OnPingTimer

SpecAnySignals == Init /\ [][NextAnySignals]_vars

\* The same Peer with a caller that may call connect again; every transport
\* keeps its contract.
NextReconnect ==
    \/ Connect
    \/ \E m \in OutMessages : SendMessage(m)
    \/ Disconnect
    \/ \E k \in Transports : MayReady(k) /\ OnSocketReady(k)
    \/ \E k \in Transports : MayEnd(k) /\ OnSocketEnd(k)
    \/ \E k \in Transports : MayClose(k) /\ OnSocketClose(k)
    \/ \E k \in Transports : MayError(k) /\ OnSocketError(k)
    \/ \E k \in Transports : MayData(k) /\ \E raw \in Frames : OnSocketData(k, raw)
    \/ OnPingTimer

SpecReconnect == Init /\ [][NextReconnect]_vars

\* The Peer of Spec with subscribers whose listeners may throw.
NextListeners ==
    \/ Next
    \/ MayData(0) /\ \E raw \in Frames, ev \in ThrowingListeners :
                        OnSocketDataListenerThrows(0, raw, ev)

SpecListeners == Init /\ [][NextListeners]_vars

TypeOK ==
    /\ state \in PeerState
    /\ messageCounter \in 0..MaxSteps
    /\ steps \in 0..MaxSteps
    /\ pingPongState.running \in BOOLEAN

----------------------------------------------------------------------------
(* Reading the trace.                                                       *)

Idx == DOMAIN trace
IsEmit(i, n)       == trace[i].kind = "emit" /\ trace[i].name = n
IsSignal(i, n)     == trace[i].kind = "signal" /\ trace[i].name = n
IsApi(i, n)        == trace[i].kind = "api" /\ trace[i].name = n
IsSocketCall(i, n) == trace[i].kind = "socket" /\ trace[i].name = n

\* An API call or a transport signal opens a step; what the Peer does in
\* answer follows it, up to the next step's opening entry.
StepStart(i) == trace[i].kind \in {"signal", "api"}
SameStep(i, j) == i <= j /\ \A k \in (i + 1)..j : ~StepStart(k)
LastOfStep(j) == j = Len(trace) \/ StepStart(j + 1)

Decoded(i) == Deserialize(trace[i].arg)

\* A frame received while awaiting the remote init, valid or not.
InitFrame(i)        == /\ IsSignal(i, "data")
                       /\ trace[i].st = "awaiting_peer_init"
                       /\ IsInitMessage(Decoded(i).m)
NegotiationFault(i) == /\ IsSignal(i, "data")
                       /\ trace[i].st = "awaiting_peer_init"
                       /\ ~IsInitMessage(Decoded(i).m)

\* The connection is closed by the transport's close, the transport's error
\* or a disconnect that reached the socket.
Closure(i) == \/ IsSignal(i, "close")
              \/ IsSignal(i, "error")
              \/ IsApi(i, "disconnect") /\ i < Len(trace) /\ IsSocketCall(i + 1, "end")

ReadyFrame(e)   == e.kind = "signal" /\ e.name = "data" /\ e.st = "ready"
ValidFrame(e)   == ReadyFrame(e) /\ Deserialize(e.arg).m # <<>>
MessageEvent(e) == e.kind = "emit" /\ e.name = "message"

----------------------------------------------------------------------------
\* C1: under every interleaving of the transport's signals, no message and
\* no rawmessage event is emitted before a ready event has been emitted.
C1_NoMessageBeforeReady ==
    \A i \in Idx :
        (IsEmit(i, "message") \/ IsEmit(i, "rawmessage"))
            => \E j \in 1..(i - 1) : IsEmit(j, "ready")

\* C2: a frame that is not a valid init, received while awaiting the remote
\* init, raises an error event and no ready event is ever emitted after it.
C2_NegotiationFaultIsFinal ==
    \A i \in Idx :
        NegotiationFault(i) =>
            /\ \E j \in Idx : SameStep(i, j) /\ IsEmit(j, "error")
            /\ \A j \in Idx : j > i => ~IsEmit(j, "ready")

\* C3: once the connection is closed (transport close, transport error or
\* disconnect), nothing is written to the transport any more and no message
\* or ready event is emitted.
C3_ClosedIsTerminal ==
    \A i \in Idx :
        Closure(i) =>
            \A j \in Idx :
                j > i => ~(\/ IsSocketCall(j, "write")
                           \/ IsEmit(j, "message")
                           \/ IsEmit(j, "ready"))

\* C4: sendMessage called while the connection is not ready (pending,
\* awaiting the peer's init, or closed) throws, emits no sending event and
\* writes nothing.
C4_SendOutsideReadyThrows ==
    \A i \in Idx :
        (/\ IsApi(i, "sendMessage")
         /\ \/ trace[i].st # "ready"
            \/ \E j \in 1..(i - 1) : Closure(j))
            => /\ i < Len(trace)
               /\ trace[i + 1].kind = "throw"
               /\ LastOfStep(i + 1)

\* C5: a frame received in ready that fails to decode is emitted as
\* rawmessage, then the socket is ended, then the error is emitted, and that
\* is all the Peer does for it: no message event.
C5_DecodeFaultInReady ==
    \A i \in Idx :
        (IsSignal(i, "data") /\ trace[i].st = "ready" /\ Decoded(i).threw)
            => /\ Len(trace) >= i + 3
               /\ trace[i + 1] = Emit("rawmessage", trace[i].arg, "ready")
               /\ trace[i + 2] = SocketCall("end", <<>>, "ready")
               /\ trace[i + 3] = Emit("error", DecodeError, "ready")
               /\ LastOfStep(i + 3)

C5_Witness ==
    \E i \in Idx : IsSignal(i, "data") /\ trace[i].st = "ready" /\ Decoded(i).threw

\* C6: every step changes messageCounter by exactly one if it is a frame
\* received in ready (decodable or not) and leaves it alone otherwise.
C6_CounterCountsReadyFrames ==
    [][LET e == trace'[Len(trace) + 1]
       IN  messageCounter' = messageCounter + (IF ReadyFrame(e) THEN 1 ELSE 0)]_vars

C6_Witness ==
    /\ messageCounter = 2
    /\ \E i \in Idx : IsSignal(i, "data") /\ trace[i].st = "ready" /\ Decoded(i).threw
    /\ \E i \in Idx : IsEmit(i, "message")
    /\ \E i \in Idx : IsSocketCall(i, "write") /\ trace[i].st = "ready"

\* C7: the message events are the decoded valid frames received in ready,
\* one per frame and in arrival order; each follows the rawmessage event of
\* its own frame; when every frame received in ready was valid,
\* messageCounter is their number.
C7_MessagesInArrivalOrder ==
    LET frames == SelectSeq(trace, ReadyFrame)
        valid  == SelectSeq(trace, ValidFrame)
        msgs   == SelectSeq(trace, MessageEvent)
    IN  /\ Len(msgs) = Len(valid)
        /\ \A k \in 1..Len(msgs) : msgs[k].arg = Deserialize(valid[k].arg).m
        /\ \A j \in Idx :
               IsEmit(j, "message") =>
                   \E i \in 1..(j - 1) :
                       /\ IsEmit(i, "rawmessage")
                       /\ SameStep(i, j)
                       /\ Decoded(i).m = trace[j].arg
        /\ Len(valid) = Len(frames) => messageCounter = Len(msgs)

C7_Witness ==
    LET frames == SelectSeq(trace, ReadyFrame)
        valid  == SelectSeq(trace, ValidFrame)
        msgs   == SelectSeq(trace, MessageEvent)
    IN  /\ Len(frames) = 3
        /\ Len(valid) = 3
        /\ msgs[1].arg # msgs[2].arg
        /\ messageCounter = 3

\* C8: a valid init received while awaiting the remote init, after the local
\* init was written, makes state ready, sets remoteInit to the decoded record
\* and emits ready in that step; ready is emitted once and only so.
C8_ValidInitMakesReadyOnce ==
    LET inits  == {i \in Idx : InitFrame(i)}
        readys == {j \in Idx : IsEmit(j, "ready")}
    IN  IF inits = {}
        THEN readys = {} /\ state # "ready" /\ remoteInit = <<>>
        ELSE /\ Cardinality(readys) = 1
             /\ \A i \in inits :
                    /\ state = "ready"
                    /\ remoteInit = Decoded(i).m
                    /\ \A j \in readys : SameStep(i, j)
                    /\ \E k \in 1..(i - 1) :
                           /\ IsSocketCall(k, "write")
                           /\ trace[k].arg = Serialize(localInit)

C8_Witness ==
    /\ \E i \in Idx : InitFrame(i)
    /\ \E i \in Idx : NegotiationFault(i)
    /\ \E i \in Idx : ReadyFrame(trace[i]) /\ IsInitMessage(Decoded(i).m)

\* C9: close is emitted at most once, and a disconnect that follows an
\* earlier disconnect or the transport's close throws nothing and emits
\* nothing: it only asks the socket to end.
C9_DisconnectIdempotent ==
    /\ Cardinality({i \in Idx : IsEmit(i, "close")}) <= 1
    /\ \A i \in Idx :
           (/\ IsApi(i, "disconnect")
            /\ \E j \in 1..(i - 1) :
                   \/ IsApi(j, "disconnect") /\ IsSocketCall(j + 1, "end")
                   \/ IsSignal(j, "close"))
               => /\ i < Len(trace)
                  /\ trace[i + 1] = SocketCall("end", <<>>, trace[i].st)
                  /\ LastOfStep(i + 1)

C9_Witness ==
    \E i, j, k, l \in Idx :
        /\ i < j /\ j < k /\ k < l
        /\ IsApi(i, "disconnect")
        /\ IsApi(j, "disconnect")
        /\ IsEmit(k, "close")
        /\ IsApi(l, "disconnect")

\* C10: disconnect never throws, whatever the state, and when it has
\* returned the liveness timer is no longer running.
C10_DisconnectSafeAndSynchronous ==
    \A i \in Idx :
        IsApi(i, "disconnect") =>
            /\ i < Len(trace)
            /\ trace[i + 1].kind # "throw"
            /\ (i + 1 = Len(trace) => ~pingPongState.running)

IsPingPong(i, n) == trace[i].kind = "pingpong" /\ trace[i].name = n

\* The connection has left the open phase before entry i: by a transport
\* close, error or end, or by an end() the Peer called on its socket.
ClosedBefore(i) ==
    \E j \in 1..(i - 1) :
        \/ Closure(j)
        \/ IsSignal(j, "end")
        \/ IsSocketCall(j, "end")

\* C11: when the transport reports close on a connection that is already
\* closed, close has been emitted once in all and the liveness teardown
\* (onDisconnecting) has run once in all.
C11_CloseAbsorbedOnce ==
    \A i \in Idx :
        (IsSignal(i, "close") /\ ClosedBefore(i))
            => /\ Cardinality({j \in Idx : IsEmit(j, "close")}) = 1
               /\ Cardinality({j \in Idx : IsPingPong(j, "onDisconnecting")}) = 1

C11_Witness ==
    \E i \in Idx :
        /\ IsSignal(i, "close")
        /\ \E j \in 1..(i - 1) : IsSignal(j, "error")
        /\ \E j \in 1..(i - 1) : IsApi(j, "disconnect")
        /\ \E j \in 1..(i - 1) : IsEmit(j, "ready")

\* C12: a connect call on a Peer that already has a transport throws, and
\* creates no second transport (and so registers no second set of listeners).
C12_ConnectFailsFast ==
    /\ detached = <<>>
    /\ \A i \in Idx :
           (IsApi(i, "connect") /\ \E j \in 1..(i - 1) : IsApi(j, "connect"))
               => /\ i < Len(trace)
                  /\ trace[i + 1].kind = "throw"
                  /\ ~IsSocketCall(i + 1, "connect")

\* C13: under every sequence of transport signals the init message factory
\* is called at most once, and only on entering awaiting_peer_init.
C13_FactoryCalledOnce ==
    /\ Cardinality({i \in Idx : trace[i].kind = "factory"}) <= 1
    /\ \A i \in Idx :
           trace[i].kind = "factory"
               => /\ trace[i].st = "awaiting_peer_init"
                  /\ \E j \in 1..(i - 1) : IsSignal(j, "ready") /\ SameStep(j, i)

\* C14: every write to the socket comes right after a sending event with the
\* same bytes, and every sending event is followed by that one write: the
\* init record, application messages, and the monitor's pings and pongs alike.
C14_SendingBeforeEveryWrite ==
    /\ \A i \in Idx :
           IsSocketCall(i, "write")
               => i > 1 /\ trace[i - 1] = Emit("sending", trace[i].arg, trace[i].st)
    /\ \A i \in Idx :
           IsEmit(i, "sending")
               => /\ i < Len(trace)
                  /\ trace[i + 1] = SocketCall("write", trace[i].arg, trace[i].st)

C14_Witness ==
    /\ \E i \in Idx : IsSocketCall(i, "write")
                        /\ trace[i].arg = Serialize(InitMessageFactory)
    /\ \E i \in Idx : IsSocketCall(i, "write") /\ IsApi(i - 2, "sendMessage")
    /\ \E i \in Idx : IsSocketCall(i, "write") /\ trace[i].arg = <<0, 19, 2>>

\* C15: for every frame decoded in ready the monitor's onMessage is called
\* with the decoded message, once, and the message event of that frame
\* follows it in the same step.
C15_ObservedBeforeDispatch ==
    LET observed(i, j) == /\ IsPingPong(i, "onMessage")
                          /\ SameStep(i, j)
                          /\ trace[i].arg = trace[j].arg
    IN  /\ \A j \in Idx :
               IsEmit(j, "message")
                   => Cardinality({i \in 1..(j - 1) : observed(i, j)}) = 1
        /\ \A i \in Idx :
               IsPingPong(i, "onMessage")
                   => Cardinality({j \in (i + 1)..Len(trace) :
                                      IsEmit(j, "message") /\ observed(i, j)}) = 1
        /\ Cardinality({i \in Idx : IsPingPong(i, "onMessage")})
               = Len(SelectSeq(trace, ValidFrame))

C15_Witness ==
    \E i, j \in Idx :
        /\ i < j
        /\ IsPingPong(i, "onMessage") /\ IsPingMessage(trace[i].arg)
        /\ IsPingPong(j, "onMessage") /\ ~IsPingMessage(trace[j].arg)
        /\ IsEmit(Len(trace), "message")

\* C16: the monitor's start is called at most once; it is called in the step
\* of the valid init received while awaiting the peer's init, right before
\* the ready event, and never in any other step; the Peer is ready exactly
\* when start has been called.
C16_MonitorStartedOnceAtReady ==
    LET starts == {i \in Idx : IsPingPong(i, "start")}
    IN  /\ Cardinality(starts) <= 1
        /\ \A i \in starts :
               /\ i > 1 /\ InitFrame(i - 1)
               /\ i < Len(trace) /\ IsEmit(i + 1, "ready")
        /\ (state = "ready") <=> (starts # {})

C16_Witness ==
    /\ \E i \in Idx : IsPingPong(i, "start")
    /\ \E i \in Idx : NegotiationFault(i)
    /\ \E i \in Idx : ReadyFrame(trace[i]) /\ IsInitMessage(Decoded(i).m)
    /\ pingPongState.running

\* A step that takes a ready connection out of service: the transport's end
\* or error, a frame that fails to decode, or disconnect.
LeavesReady(i) ==
    /\ trace[i].st = "ready"
    /\ \/ IsSignal(i, "end")
       \/ IsSignal(i, "error")
       \/ IsSignal(i, "data") /\ Decoded(i).threw
       \/ IsApi(i, "disconnect")

\* C17: in every step that takes the connection out of ready the monitor's
\* onDisconnecting is called, and after that step no liveness timer runs.
C17_MonitorStoppedOnLeavingReady ==
    \A i \in Idx :
        LeavesReady(i) =>
            /\ \E j \in Idx : SameStep(i, j) /\ IsPingPong(j, "onDisconnecting")
            /\ (\A j \in (i + 1)..Len(trace) : ~StepStart(j)) => ~pingPongState.running

\* An inbound frame whose processing throws.
ProcessingFails(i) ==
    \/ NegotiationFault(i)
    \/ IsSignal(i, "data") /\ trace[i].st # "awaiting_peer_init" /\ Decoded(i).threw

C19_RemoteInitSetOnce ==
    /\ state = "ready" => remoteInit # <<>>
    /\ (\A i \in Idx : ~InitFrame(i)) => remoteInit = <<>>
    /\ remoteInit # <<>> =>
           \E i \in Idx : /\ InitFrame(i)
                          /\ remoteInit = Decoded(i).m
                          /\ \A j \in Idx : InitFrame(j) => j = i
    /\ (\E i \in Idx : NegotiationFault(i)) => remoteInit = <<>>

\* The frame at i is the pong that answers the monitor's ping.
AnswersPing(i) == /\ IsSignal(i, "data")
                  /\ trace[i].st = "ready"
                  /\ Decoded(i).m = <<19, PingMessage[2]>>

\* The ping sent at i has not been answered so far.
Unanswered(i) == /\ IsPingPong(i, "sendPing")
                 /\ \A k \in Idx : k > i => ~AnswersPing(k)

\* C20: at most one ping is outstanding: between two pings the monitor sends
\* there is the pong that answers the first, and the monitor holds a ping as
\* outstanding exactly while the last ping it sent is unanswered.
C20_AtMostOnePingOutstanding ==
    /\ \A i, j \in Idx :
           IsPingPong(i, "sendPing") /\ IsPingPong(j, "sendPing") /\ i < j =>
               \E k \in Idx : i < k /\ k < j /\ AnswersPing(k)
    /\ pingPongState.sentPing # <<>> <=> \E i \in Idx : Unanswered(i)

\* The timer fires while a ping is unanswered and the monitor is running.
C20_Witness ==
    \E i, j \in Idx :
        /\ Unanswered(i) /\ i < j
        /\ IsSignal(j, "tick")
        /\ pingPongState.running

\* The monitor's timer fires at j with no ping outstanding and with no
\* message observed since its previous firing (or since it was started).
IdleTick(j) ==
    /\ IsSignal(j, "tick") /\ trace[j].st = "ready"
    /\ \A i \in Idx :
           IsPingPong(i, "sendPing") /\ i < j =>
               \E k \in Idx : i < k /\ k < j /\ AnswersPing(k)
    /\ \A i \in Idx :
           IsPingPong(i, "onMessage") /\ i < j =>
               \E k \in Idx : i < k /\ k < j /\ IsSignal(k, "tick")

\* The timer fires at j for the TimeoutTicks-th time since the ping sent at i,
\* and no pong has answered that ping.
TimeoutTick(i, j) ==
    /\ IsPingPong(i, "sendPing") /\ IsSignal(j, "tick") /\ i < j
    /\ \A k \in Idx : i < k /\ k < j => ~AnswersPing(k)
    /\ Cardinality({k \in Idx : i < k /\ k <= j /\ IsSignal(k, "tick")})
           = TimeoutTicks

\* C21: in ready, a timer firing after an idle interval sends exactly one
\* ping; a ping still unanswered when the timeout has passed ends the socket
\* and surfaces a liveness error, and no further ping is sent.
C21_IdlePingThenLivenessFault ==
    /\ \A j \in Idx :
           IdleTick(j) =>
               /\ Cardinality({k \in Idx : SameStep(j, k)
                                           /\ IsPingPong(k, "sendPing")}) = 1
               /\ \E k \in Idx : /\ SameStep(j, k)
                                  /\ IsSocketCall(k, "write")
                                  /\ trace[k].arg = Serialize(PingMessage)
    /\ \A i, j \in Idx :
           TimeoutTick(i, j) =>
               /\ \E k \in Idx : SameStep(j, k) /\ IsSocketCall(k, "end")
               /\ \E k \in Idx : /\ SameStep(j, k) /\ IsEmit(k, "error")
                                  /\ trace[k].arg = LivenessError
               /\ \A k \in Idx : k > j => ~IsPingPong(k, "sendPing")
               /\ ~pingPongState.running

C21_Witness ==
    \E i, j \in Idx :
        /\ TimeoutTick(i, j)
        /\ \E h \in Idx : IdleTick(h) /\ SameStep(h, i)
        /\ socket.ended

\* The listener of ev threw somewhere in the trace.
ListenerThrew(ev) == \E i \in Idx : trace[i].kind = "throw" /\ trace[i].name = ev

\* C25: a step in which a rawmessage, message or ready listener throws ends
\* with the socket's end() and an error event carrying the thrown value,
\* right after the throw; the fields the Peer changed before the throw keep
\* their new values, and what follows the throwing emit is not done.
C25_ListenerThrowIsProtocolFault ==
    [][\A ev \in ThrowingListeners :
          (\E i \in (Len(trace) + 1)..Len(trace') :
               trace'[i].kind = "throw" /\ trace'[i].name = ev) =>
              LET n   == Len(trace')
                  new == (Len(trace) + 1)..n
                  m   == Deserialize(trace'[Len(trace) + 1].arg).m
              IN  /\ trace'[n] = Emit("error", ListenerError, state')
                  /\ trace'[n - 1] = SocketCall("end", <<>>, state')
                  /\ trace'[n - 2].kind = "throw"
                  /\ trace'[n - 3].kind = "emit" /\ trace'[n - 3].name = ev
                  /\ socket'.ended
                  /\ ev = "ready" =>
                         /\ state = "awaiting_peer_init" /\ state' = "ready"
                         /\ remoteInit' = m /\ IsInitMessage(m)
                         /\ pingPongState'.running
                         /\ messageCounter' = messageCounter
                  /\ ev # "ready" =>
                         /\ state' = state /\ remoteInit' = remoteInit
                         /\ messageCounter' = messageCounter + 1
                  /\ ev = "rawmessage" =>
                         /\ pingPongState' = pingPongState
                         /\ \A i \in new : trace'[i].kind # "pingpong"
                         /\ \A i \in new : ~(trace'[i].kind = "emit"
                                              /\ trace'[i].name = "message")
                  /\ ev = "message" =>
                         /\ pingPongState'.active
                         /\ \E i \in new : /\ trace'[i].kind = "pingpong"
                                            /\ trace'[i].name = "onMessage"]_vars

C25_Witness ==
    /\ \A ev \in ThrowingListeners : ListenerThrew(ev)
    /\ state = "ready" /\ remoteInit # <<>> /\ messageCounter = 2
    /\ pingPongState.running /\ pingPongState.active
    /\ trace[Len(trace)] = Emit("error", ListenerError, "ready")

\* A frame received in ready for which the codec returns no message.
NoMessageFrame(e) ==
    /\ ReadyFrame(e)
    /\ ~Deserialize(e.arg).threw
    /\ Deserialize(e.arg).m = <<>>

\* C26: a frame received in ready for which the codec returns no message is
\* counted and emitted as rawmessage and has no other effect: no message
\* event, nothing shown to the monitor, no error, no end() on the socket,
\* and state stays ready.
C26_NoMessageFrameIsCountedOnly ==
    [][LET e == trace'[Len(trace) + 1]
       IN  NoMessageFrame(e) =>
               /\ trace' = trace \o <<e, Emit("rawmessage", e.arg, "ready")>>
               /\ messageCounter' = messageCounter + 1
               /\ state' = "ready"
               /\ pingPongState' = pingPongState
               /\ socket'.ended = socket.ended
               /\ remoteInit' = remoteInit]_vars

C26_Witness ==
    /\ \E i \in Idx : NoMessageFrame(trace[i]) /\ LastOfStep(i + 1)
    /\ state = "ready" /\ ~socket.ended /\ messageCounter = 2
    /\ \E i \in Idx : IsEmit(i, "message")

\* What the Peer does on the transport's ready, in program order.
ReadyStepInOrder(i) ==
    /\ i + 4 <= Len(trace)
    /\ trace[i + 1] = Emit("open", <<>>, "awaiting_peer_init")
    /\ trace[i + 2] = Factory("awaiting_peer_init")
    /\ trace[i + 3] = Emit("sending", Serialize(InitMessageFactory),
                           "awaiting_peer_init")
    /\ trace[i + 4] = SocketCall("write", Serialize(InitMessageFactory),
                                 "awaiting_peer_init")
    /\ LastOfStep(i + 4)

\* localInit has been stored by the time entry i is produced: the factory
\* was called earlier and its record is stored as soon as it returns.
LocalInitSetAt(i) == \E j \in Idx : j < i /\ trace[j].kind = "factory"

\* C27 as stated: on the transport's ready the Peer sets state to
\* awaiting_peer_init, emits open, stores the factory's record, emits
\* sending and writes, in this order; and localInit is set whenever state is
\* not pending, the moments at which listeners are called included.
C27_LocalInitSetOutsidePending ==
    /\ \A i \in Idx : IsSignal(i, "ready") => ReadyStepInOrder(i)
    /\ state # "pending" => localInit = InitMessageFactory
    /\ \A i \in Idx :
           trace[i].kind = "emit" /\ trace[i].st # "pending" => LocalInitSetAt(i)

\* C27 as amended: the same order; localInit is set whenever state is not
\* pending once the ready handler has returned, and at every event emitted
\* outside pending except open, whose listeners run in awaiting_peer_init
\* before the factory has been called.
C27_ReadyOrderOpenBeforeLocalInit ==
    /\ \A i \in Idx : IsSignal(i, "ready") => ReadyStepInOrder(i)
    /\ state # "pending" => localInit = InitMessageFactory
    /\ state = "pending" => localInit = <<>>
    /\ \A i \in Idx :
           trace[i].kind = "emit" /\ trace[i].st # "pending" =>
               IF IsEmit(i, "open")
               THEN trace[i].st = "awaiting_peer_init" /\ ~LocalInitSetAt(i)
               ELSE LocalInitSetAt(i)

C27_Witness ==
    /\ \E i \in Idx : IsSignal(i, "ready") /\ trace[i].st = "pending"
    /\ \E i \in Idx : IsEmit(i, "ready")
    /\ state = "ready" /\ localInit = InitMessageFactory

----------------------------------------------------------------------------
(* TxBuilder claims.                                                        *)

\* The 0-based indices of the builder's inputs.
ValidIndex(b) == 0..(Len(b.inputs) - 1)

\* C22: setScriptSig(index, scriptSig) with a valid index sets the scriptSig
\* of the input at that position of the sorted inputs and changes nothing
\* else: no other input, and no other field of that input.
C22_SetScriptSigAtIndex ==
    [][call'.op = "setScriptSig" /\ call'.index \in ValidIndex(builder) =>
          LET before == Inputs(builder)
              after  == Inputs(builder')
              i      == call'.index + 1
          IN  /\ ~call'.threw
              /\ Len(after) = Len(before)
              /\ after[i] = [before[i] EXCEPT !.scriptSig = call'.script]
              /\ \A j \in 1..Len(before) : j # i => after[j] = before[j]]_vars

\* The SIGHASH_ALL serialization the documentation of hashAll describes:
\* every input, the signatory with the redeemScript or else the prevout's
\* scriptPubKey as its scriptSig and every other input with an empty one,
\* then every output, the locktime and the sighash type.
SigHashAllSerialization(b, input, prevout, redeemScript) ==
    LET inputs  == Inputs(b)
        outputs == Outputs(b)
        commit  == IF redeemScript # NoRedeemScript
                   THEN ScriptOfBuffer(redeemScript)
                   ELSE prevout.scriptPubKey
        vin(i)  == TxInSerialize(TxIn(inputs[i].outpoint,
                                      IF i - 1 = input THEN commit ELSE EmptyScript,
                                      inputs[i].sequence))
    IN  <<b.version, Len(inputs)>>
            \o Concat([i \in 1..Len(inputs) |-> vin(i)])
            \o <<Len(outputs)>>
            \o Concat([i \in 1..Len(outputs) |-> TxOutSerialize(outputs[i])])
            \o <<b.locktime, 1>>

\* C23: what hashAll (directly or through sign) hashes for a valid signatory
\* index is the serialization of all inputs and all outputs, the signatory
\* input committed to the redeemScript or the prevout's scriptPubKey and
\* every other input written with an empty scriptSig.
C23_HashAllWritesEveryInput ==
    call.op \in {"hashAll", "sign"} /\ call.index \in ValidIndex(builder) =>
        /\ call.written =
               SigHashAllSerialization(builder, call.index, call.prevout, call.redeem)
        /\ call.op = "hashAll" => call.ret = Hash256(call.written)

\* The builder with the scriptSig of every input removed.
Blanked(b) ==
    [b EXCEPT !.inputs = [i \in 1..Len(b.inputs) |->
                             [b.inputs[i] EXCEPT !.scriptSig = EmptyScript]]]

\* The bytes sub occur in bytes.
Embedded(sub, bytes) ==
    \E o \in 0..(Len(bytes) - Len(sub)) : SubSeq(bytes, o + 1, o + Len(sub)) = sub

\* Every signatory index, prevout and redeemScript hashAll may be given.
HashAllArgs ==
    (0..(MaxInputs - 1)) \X PrevOuts \X (RedeemScripts \cup {NoRedeemScript})

====
